---- MODULE Spec2Model ----
(***************************************************************************)
(* A model of the basis subsystem of nemos:                                *)
(*   - TransformerBasis (src/src/nemos/basis/_transformer_basis.py), the   *)
(*     scikit-learn adapter around a Basis object, over a heap of basis    *)
(*     objects so that copy.deepcopy and object sharing are visible;       *)
(*   - the raised-cosine bases' parameter validation                       *)
(*     (src/src/nemos/basis/_raised_cosine_basis.py);                      *)
(*   - the FeaturePytree container shown in                                *)
(*     src/docs/api_guide/plot_03_glm_pytree.py.                           *)
(* The specifications SpecT and SpecC run the first, SpecW the second and  *)
(* SpecP the third.                                                        *)
(***************************************************************************)
EXTENDS Integers, Sequences, FiniteSets, TLC

VARIABLES
    heap,    \* object id -> basis object (a leaf, a composite, or free)
    trans,   \* TransformerBasis id -> id of its _basis (0: not constructed)
    last,    \* the last call on a TransformerBasis and how it ended
    tree,    \* the FeaturePytree: key -> block (its data and time points)
    plast,   \* the last FeaturePytree call and how it ended
    rc,      \* a raised-cosine basis object
    wlast    \* the last raised-cosine call and how it ended

vars == <<heap, trans, last, tree, plast, rc, wlast>>
tvars == <<heap, trans, last>>
pvars == <<tree, plast>>
wvars == <<rc, wlast>>

(***************************************************************************)
(* Bounds of the model.                                                    *)
(***************************************************************************)
MaxObjs == 10        \* basis objects alive between two calls
MaxTemp == 7        \* further objects alive only inside one call
MaxT == 2           \* TransformerBasis objects
MaxRows == 2        \* samples of an input X
MaxCols == 3        \* columns of an input X
MaxExp == 2         \* largest exponent of **

ObjIds == 1..(MaxObjs + MaxTemp)
TIds == 1..MaxT

(***************************************************************************)
(* Python values.                                                          *)
(***************************************************************************)
\* None, for attributes whose other values are tuples
None == <<>>

RECURSIVE SumSeq(_)
SumSeq(s) == IF s = <<>> THEN 0 ELSE Head(s) + SumSeq(Tail(s))

RECURSIVE ProdSeq(_)
ProdSeq(s) == IF s = <<>> THEN 1 ELSE Head(s) * ProdSeq(Tail(s))

MinOf(S) == CHOOSE x \in S : \A y \in S : x <= y

RECURSIVE SortedSeq(_)
SortedSeq(S) ==
    IF S = {} THEN <<>>
    ELSE <<MinOf(S)>> \o SortedSeq(S \ {MinOf(S)})

IndexOf(s, x) == CHOOSE i \in 1..Len(s) : s[i] = x

\* F(v), the value v being computed once: "let x = v in F(x)"
Let(v, F(_)) == CHOOSE y \in {F(x) : x \in {v}} : TRUE

(***************************************************************************)
(* Basis objects.  A leaf is a one-dimensional basis (the raised-cosine    *)
(* families set _n_input_dimensionality = 1); a composite refers to its    *)
(* two operands.                                                           *)
(***************************************************************************)
Free == [kind |-> "free"]

Leaf(n, mode, ws, shape, nin) ==
    [kind |-> "leaf", n_basis_funcs |-> n, mode |-> mode, window_size |-> ws,
     input_shape_ |-> shape, n_basis_input_ |-> nin, kernel_ |-> None]

Composite(k, a, b) == [kind |-> k, basis1 |-> a, basis2 |-> b]

RECURSIVE Reach(_, _)
Reach(h, r) ==
    IF h[r].kind \in {"add", "mul"}
    THEN {r} \cup Reach(h, h[r].basis1) \cup Reach(h, h[r].basis2)
    ELSE {r}

FreeIds(h) == {i \in ObjIds : h[i].kind = "free"}

\* The objects of h that take part in the value of r, as a tree of values.
RECURSIVE Val(_, _)
Val(h, r) ==
    IF h[r].kind \in {"add", "mul"}
    THEN [kind |-> h[r].kind, basis1 |-> Val(h, h[r].basis1),
          basis2 |-> Val(h, h[r].basis2)]
    ELSE h[r]

\* copy.deepcopy(r): every object reachable from r is copied once (the memo)
\* into a fresh object, references inside the copy point into the copy.
DeepCopy(h, r) ==
    LET own == Reach(h, r)
        old == SortedSeq(own)
        fr  == SortedSeq(FreeIds(h))
        to  == [i \in own |-> fr[IndexOf(old, i)]]
        new == {to[i] : i \in own}
        src(j) == CHOOSE i \in own : to[i] = j
        cp(i) == IF h[i].kind \in {"add", "mul"}
                 THEN [h[i] EXCEPT !.basis1 = to[@], !.basis2 = to[@]]
                 ELSE h[i]
    IN [heap |-> [j \in ObjIds |-> IF j \in new THEN cp(src(j)) ELSE h[j]],
        root |-> to[r]]

\* Allocation of one new object.
AllocAt(h, obj, j) == [heap |-> [h EXCEPT ![j] = obj], root |-> j]

Alloc(h, obj) == AllocAt(h, obj, MinOf(FreeIds(h)))

\* Objects no TransformerBasis reaches are garbage.
Roots(tr) == {tr[t] : t \in {u \in TIds : tr[u] # 0}}
Live(h, tr) == UNION {Reach(h, r) : r \in Roots(tr)}
Collect(h, tr) ==
    LET live == Live(h, tr)
    IN [j \in ObjIds |-> IF j \in live THEN h[j] ELSE Free]

(***************************************************************************)
(* Properties of a Basis object (Basis, AdditiveBasis, MultiplicativeBasis;*)
(* their module is not among the source files, they follow the             *)
(* specification's data model and composition engine).                     *)
(***************************************************************************)
IsComposite(h, r) == h[r].kind \in {"add", "mul"}

\* number of basis functions: sum (additive) or product (multiplicative)
RECURSIVE NBasisFuncs(_, _)
NBasisFuncs(h, r) ==
    IF h[r].kind = "add"
    THEN NBasisFuncs(h, h[r].basis1) + NBasisFuncs(h, h[r].basis2)
    ELSE IF h[r].kind = "mul"
    THEN NBasisFuncs(h, h[r].basis1) * NBasisFuncs(h, h[r].basis2)
    ELSE h[r].n_basis_funcs

\* input arity: the number of sample arrays the basis consumes
RECURSIVE NInputDim(_, _)
NInputDim(h, r) ==
    IF IsComposite(h, r)
    THEN NInputDim(h, h[r].basis1) + NInputDim(h, h[r].basis2)
    ELSE 1

\* the leaf components, left to right
RECURSIVE ListComponents(_, _)
ListComponents(h, r) ==
    IF IsComposite(h, r)
    THEN ListComponents(h, h[r].basis1) \o ListComponents(h, h[r].basis2)
    ELSE <<r>>

\* _n_basis_input_: the input width of every leaf, None until all are set
RECURSIVE NBasisInput(_, _)
NBasisInput(h, r) ==
    IF IsComposite(h, r)
    THEN LET a == NBasisInput(h, h[r].basis1)
             b == NBasisInput(h, h[r].basis2)
         IN IF a = None \/ b = None THEN None ELSE a \o b
    ELSE h[r].n_basis_input_

\* width of the feature matrix the basis computes
RECURSIVE NOutputFeatures(_, _)
NOutputFeatures(h, r) ==
    IF h[r].kind = "add"
    THEN NOutputFeatures(h, h[r].basis1) + NOutputFeatures(h, h[r].basis2)
    ELSE IF h[r].kind = "mul"
    THEN NOutputFeatures(h, h[r].basis1) * NOutputFeatures(h, h[r].basis2)
    ELSE h[r].n_basis_funcs * SumSeq(h[r].n_basis_input_)

\* set_input_shape(*shapes): one trailing shape per leaf, left to right
BasisSetInputShape(h, r, shapes) ==
    LET comps == ListComponents(h, r)
    IN [j \in ObjIds |->
          IF \E i \in 1..Len(comps) : comps[i] = j
          THEN LET i == IndexOf(comps, j)
               IN [h[j] EXCEPT !.input_shape_ = shapes[i],
                               !.n_basis_input_ = <<ProdSeq(shapes[i])>>]
          ELSE h[j]]

\* set_kernel(): a leaf in conv mode caches a kernel of shape
\* (window_size, n_basis_funcs)
BasisSetKernel(h, r) ==
    LET own == Reach(h, r)
    IN [j \in ObjIds |->
          IF j \in own /\ h[j].kind = "leaf" /\ h[j].mode = "conv"
          THEN [h[j] EXCEPT !.kernel_ = <<h[j].window_size, h[j].n_basis_funcs>>]
          ELSE h[j]]

\* setup_basis(*xi): remember the inputs' trailing shapes, compute the kernels
BasisSetupBasis(h, r, xi) ==
    Let(BasisSetInputShape(h, r, [i \in 1..Len(xi) |-> Tail(xi[i].shape)]),
        LAMBDA g : BasisSetKernel(g, r))

\* _compute_features(*xi): a conv leaf needs its kernel
KernelMissing(h, r) ==
    \E j \in Reach(h, r) :
        h[j].kind = "leaf" /\ h[j].mode = "conv" /\ h[j].kernel_ = None

\* Basis.__add__ / __mul__: a new composite that owns copies of its operands
BasisCompose(k, h, a, b) ==
    Let(DeepCopy(h, a), LAMBDA ca :
    Let(DeepCopy(ca.heap, b), LAMBDA cb :
        Alloc(cb.heap, Composite(k, ca.root, cb.root))))

BasisAdd(h, a, b) == BasisCompose("add", h, a, b)
BasisMul(h, a, b) == BasisCompose("mul", h, a, b)

\* Basis.__pow__: the exponent is checked, then __mul__ is applied
\* exponent - 1 times to the basis itself
RECURSIVE PowLoop(_, _, _)
PowLoop(result, a, k) ==
    IF k <= 0 THEN result
    ELSE Let(BasisMul(result.heap, result.root, a), LAMBDA m : PowLoop(m, a, k - 1))

\* a raise leaves err; a return has err = "none"
WithErr(c, err) == [heap |-> c.heap, root |-> c.root, err |-> err]

BasisPow(h, a, e) ==
    IF e.type # "int"
    THEN [heap |-> h, root |-> 0, err |-> "TypeError"]
    ELSE IF e.val <= 0
    THEN [heap |-> h, root |-> 0, err |-> "ValueError"]
    ELSE Let(PowLoop([heap |-> h, root |-> a], a, e.val - 1),
             LAMBDA p : WithErr(p, "none"))

(***************************************************************************)
(* TransformerBasis.  An input X is known by its ndim (NoNdim: an object   *)
(* without that attribute) and its shape; y is None or its sample count.   *)
(***************************************************************************)
NoNdim == -1
YNone == -1

Array2(r, c) == [ndim |-> 2, shape |-> <<r, c>>]
XSet ==
    {Array2(r, c) : r \in 1..MaxRows, c \in 1..MaxCols}
    \cup {[ndim |-> 1, shape |-> <<r>>] : r \in 1..MaxRows}
    \cup {[ndim |-> NoNdim, shape |-> <<>>]}
YSet == {YNone} \cup (1..MaxRows)

\* how a call ended: the exception raised ("none": it returned), what its
\* message reports, and what it returned
Outcome(err, msg, expected, got, feat) ==
    [err |-> err, msg |-> msg, expected |-> expected, got |-> got, feat |-> feat]
Returned == Outcome("none", "", 0, 0, None)
Raised(err, msg) == Outcome(err, msg, 0, 0, None)

\* __init__ that keeps the caller's object instead of a copy
TInitMutNoCopy(h, basis) == [heap |-> h, root |-> basis]

\* TransformerBasis.__init__
TInit(h, basis) == DeepCopy(h, basis)

\* TransformerBasis(c.root) in the heap c.heap
TWrap(c) == TInit(c.heap, c.root)

\* TransformerBasis._check_initialized: TRUE when it raises RuntimeError
NotInitialized(h, basis) == NBasisInput(h, basis) = None

\* _check_input without the comparison of the column count
CheckInputMutNoColumns(h, basis, X, y) ==
    IF X.ndim = NoNdim
    THEN Raised("ValueError", "The input must be a 2-dimensional array.")
    ELSE IF X.ndim # 2
    THEN Raised("ValueError", "X must be 2-dimensional")
    ELSE IF y # YNone /\ y # X.shape[1]
    THEN Raised("AttributeError", "shpae")
    ELSE Returned

\* TransformerBasis._check_input
CheckInput(h, basis, X, y) ==
    IF X.ndim = NoNdim
    THEN Raised("ValueError", "The input must be a 2-dimensional array.")
    ELSE IF X.ndim # 2
    THEN Raised("ValueError", "X must be 2-dimensional")
    ELSE IF X.shape[2] # SumSeq(NBasisInput(h, basis))
    THEN Outcome("ValueError", "Input mismatch",
                 SumSeq(NBasisInput(h, basis)), X.shape[2], None)
    ELSE IF y # YNone /\ y # X.shape[1]
    \* the message reads X.shpae, which no array has
    THEN Raised("AttributeError", "shpae")
    ELSE Returned

\* _unpack_inputs without cc += n_input: every component is sliced from
\* the first column
RECURSIVE UnpackFromMutNoAdvance(_, _, _, _, _)
UnpackFromMutNoAdvance(h, comps, nin, X, cc) ==
    IF comps = <<>> THEN <<>>
    ELSE LET n_input == Head(nin)
             lo == cc + 1
             hi == IF cc + n_input <= X.shape[2] THEN cc + n_input ELSE X.shape[2]
             taken == IF hi >= lo THEN hi - lo + 1 ELSE 0
             shape == <<X.shape[1]>> \o h[Head(comps)].input_shape_
         IN <<[first |-> lo, ncols |-> taken, shape |-> shape,
               ok |-> X.shape[1] * taken = ProdSeq(shape)]>>
            \o UnpackFromMutNoAdvance(h, Tail(comps), Tail(nin), X, cc)

\* TransformerBasis._unpack_inputs: component i takes the columns
\* cc+1 .. cc+n_input of X that exist and reshapes them to
\* (n_samples, *input_shape); np.reshape raises ValueError when the sizes differ
RECURSIVE UnpackFrom(_, _, _, _, _)
UnpackFrom(h, comps, nin, X, cc) ==
    IF comps = <<>> THEN <<>>
    ELSE LET n_input == Head(nin)
             lo == cc + 1
             hi == IF cc + n_input <= X.shape[2] THEN cc + n_input ELSE X.shape[2]
             taken == IF hi >= lo THEN hi - lo + 1 ELSE 0
             shape == <<X.shape[1]>> \o h[Head(comps)].input_shape_
         IN <<[first |-> lo, ncols |-> taken, shape |-> shape,
               ok |-> X.shape[1] * taken = ProdSeq(shape)]>>
            \o UnpackFrom(h, Tail(comps), Tail(nin), X, cc + n_input)

UnpackInputs(h, basis, X) ==
    UnpackFrom(h, ListComponents(h, basis), NBasisInput(h, basis), X, 0)

UnpackRaises(h, basis, X) ==
    \E i \in 1..Len(UnpackInputs(h, basis, X)) : ~UnpackInputs(h, basis, X)[i].ok

\* fit without the call of _check_initialized
TFitMutNoInitCheck(h, basis, X, y) ==
    IF CheckInput(h, basis, X, y).err # "none"
    THEN [heap |-> h, out |-> CheckInput(h, basis, X, y)]
    ELSE [heap |-> BasisSetKernel(h, basis), out |-> Returned]

\* TransformerBasis.fit: the outcome and the heap it leaves
TFit(h, basis, X, y) ==
    IF NotInitialized(h, basis)
    THEN [heap |-> h, out |-> Raised("RuntimeError", "no defined input shape")]
    ELSE IF CheckInput(h, basis, X, y).err # "none"
    THEN [heap |-> h, out |-> CheckInput(h, basis, X, y)]
    ELSE [heap |-> BasisSetupBasis(h, basis, UnpackInputs(h, basis, X)),
          out |-> Returned]

\* TransformerBasis.transform
TTransform(h, basis, X) ==
    IF NotInitialized(h, basis)
    THEN [heap |-> h, out |-> Raised("RuntimeError", "no defined input shape")]
    ELSE IF X.ndim = NoNdim
    THEN [heap |-> h, out |-> Raised("AttributeError", "shape")]
    ELSE IF X.ndim # 2
    THEN [heap |-> h, out |-> Raised("IndexError", "too many indices")]
    ELSE IF UnpackRaises(h, basis, X)
    THEN [heap |-> h, out |-> Raised("ValueError", "cannot reshape array")]
    ELSE IF KernelMissing(h, basis)
    THEN [heap |-> h, out |-> Raised("RuntimeError", "kernel is not set")]
    ELSE [heap |-> h,
          out |-> Outcome("none", "", 0, 0,
                          <<X.shape[1], NOutputFeatures(h, basis)>>)]

\* TransformerBasis.fit_transform
TFitTransform(h, basis, X, y) ==
    Let(TFit(h, basis, X, y), LAMBDA f :
        IF f.out.err # "none" THEN f ELSE TTransform(f.heap, basis, X))

\* TransformerBasis.__add__
TAdd(h, a, b) == Let(BasisAdd(h, a, b), TWrap)

\* __mul__ written with the operator of __add__
TMulMutAdds(h, a, b) == TAdd(h, a, b)

\* TransformerBasis.__mul__
TMul(h, a, b) == Let(BasisMul(h, a, b), TWrap)

\* __pow__ that multiplies the basis by itself once, whatever the exponent
TPowMutSquare(h, a, e) == Let(TMul(h, a, a), LAMBDA c : WithErr(c, "none"))

\* TransformerBasis.__pow__: Basis.__pow__ raises for a bad exponent
TPowOf(h, p) ==
    IF p.err # "none"
    THEN [heap |-> h, root |-> 0, err |-> p.err]
    ELSE Let(TWrap(p), LAMBDA c : WithErr(c, "none"))

TPow(h, a, e) == Let(BasisPow(h, a, e), LAMBDA p : TPowOf(h, p))

(***************************************************************************)
(* The calls a program makes on TransformerBasis objects.                  *)
(***************************************************************************)
WindowSize == 2     \* window_size of the bases built in conv mode

\* constructor arguments of the wrapped one-dimensional bases
LeafArgs ==
    {[n |-> 2, mode |-> "eval", ws |-> 0],
     [n |-> 3, mode |-> "conv", ws |-> WindowSize]}

NewLeaf(a) == Leaf(a.n, a.mode, a.ws, <<>>, None)

\* trailing shapes of one input: a vector, or two values per sample
ShapeSet == {<<>>, <<2>>}

RECURSIVE ShapeSeqs(_)
ShapeSeqs(k) ==
    IF k = 0 THEN {<<>>}
    ELSE {<<s>> \o rest : s \in ShapeSet, rest \in ShapeSeqs(k - 1)}

\* exponents: integers, and a float
ExpSet ==
    {[type |-> "int", val |-> k] : k \in (-1)..MaxExp}
    \cup {[type |-> "float", val |-> 2]}

Call(op, t, u, new, arg, out) ==
    [op |-> op, t |-> t, u |-> u, new |-> new, arg |-> arg, out |-> out]

NLive == Cardinality(Live(heap, trans))
Size(r) == Cardinality(Reach(heap, r))
EmptyHeap == [j \in ObjIds |-> Free]
NoTrans == [t \in TIds |-> 0]

\* a basis the caller builds: a leaf, or leaf + leaf, or leaf * leaf
NewBasis(k, h, a1, a2) ==
    IF k = "leaf" THEN Alloc(h, NewLeaf(a1))
    ELSE Let(Alloc(h, NewLeaf(a1)), LAMBDA b1 :
         Let(Alloc(b1.heap, NewLeaf(a2)), LAMBDA b2 :
             BasisCompose(k, b2.heap, b1.root, b2.root)))

\* the new transformer is bound to variable t
Bind(t, c, call) ==
    /\ trans' = [trans EXCEPT ![t] = c.root]
    /\ heap' = Collect(c.heap, [trans EXCEPT ![t] = c.root])
    /\ last' = call
    /\ UNCHANGED <<pvars, wvars>>

\* transformer.set_input_shape(*shapes): __getattr__ forwards the call to the
\* wrapped basis and chains the transformer
SetInputShape(t, shapes) ==
    /\ trans[t] # 0
    /\ Len(shapes) = NInputDim(heap, trans[t])
    /\ heap' = BasisSetInputShape(heap, trans[t], shapes)
    /\ last' = Call("set_input_shape", t, 0, 0, 0, Returned)
    /\ UNCHANGED <<trans, pvars, wvars>>

Fit(t, X, y) ==
    /\ trans[t] # 0
    /\ \E f \in {TFit(heap, trans[t], X, y)} :
          /\ heap' = f.heap
          /\ last' = Call("fit", t, 0, 0, X, f.out)
    /\ UNCHANGED <<trans, pvars, wvars>>

Transform(t, X) ==
    /\ trans[t] # 0
    /\ \E f \in {TTransform(heap, trans[t], X)} :
          /\ heap' = f.heap
          /\ last' = Call("transform", t, 0, 0, X, f.out)
    /\ UNCHANGED <<trans, pvars, wvars>>

FitTransform(t, X, y) ==
    /\ trans[t] # 0
    /\ \E f \in {TFitTransform(heap, trans[t], X, y)} :
          /\ heap' = f.heap
          /\ last' = Call("fit_transform", t, 0, 0, X, f.out)
    /\ UNCHANGED <<trans, pvars, wvars>>

(***************************************************************************)
(* SpecT: one TransformerBasis, around a leaf or a composite of two        *)
(* leaves, is given input shapes, fitted and applied.                      *)
(***************************************************************************)
\* TransformerBasis(basis) and TransformerBasis(basis1 + basis2),
\* TransformerBasis(basis1 * basis2) on bases the caller has just built
WrapLeaf(a) == Let(NewBasis("leaf", EmptyHeap, a, a), TWrap)

WrapComposite(k, a1, a2) == Let(NewBasis(k, EmptyHeap, a1, a2), TWrap)

InitWrapped ==
    {WrapLeaf(a) : a \in LeafArgs}
    \cup {WrapComposite(k, a1, a2) : k \in {"add", "mul"}, a1 \in LeafArgs, a2 \in LeafArgs}

\* the container and the raised-cosine basis are not in use
NoTree == [made |-> FALSE]
NoBasis == [cls |-> "none"]
NoCall == [op |-> "none"]

InitT ==
    /\ \E w \in InitWrapped :
          /\ trans = [t \in TIds |-> IF t = 1 THEN w.root ELSE 0]
          /\ heap = Collect(w.heap, [t \in TIds |-> IF t = 1 THEN w.root ELSE 0])
    /\ last = Call("construct", 1, 0, 1, 0, Returned)
    /\ tree = NoTree /\ plast = NoCall
    /\ rc = NoBasis /\ wlast = NoCall

NextT ==
    \/ \E k \in 1..2 : \E shapes \in ShapeSeqs(k) : SetInputShape(1, shapes)
    \/ \E X \in XSet, y \in YSet : Fit(1, X, y)
    \/ \E X \in XSet : Transform(1, X)
    \/ \E X \in XSet, y \in YSet : FitTransform(1, X, y)

SpecT == InitT /\ [][NextT]_vars

(***************************************************************************)
(* SpecC: transformers are built, composed with +, * and **, and the       *)
(* results and the operands are given input shapes and fitted.             *)
(***************************************************************************)
\* objects a product of k copies of a basis of s objects has, and the
\* objects the products before the last one had
PowSize(s, k) == k * s + (k - 1)

RECURSIVE PowTemps(_, _)
PowTemps(s, k) == IF k <= 1 THEN 0 ELSE PowSize(s, k) + PowTemps(s, k - 1)

\* the one-dimensional basis the programs of SpecC build
LeafArgC == [n |-> 3, mode |-> "conv", ws |-> WindowSize]

\* the variable the next new transformer is bound to: the first unbound one
Unbound == {t \in TIds : trans[t] = 0}
NextVar == CHOOSE t \in Unbound : \A u \in Unbound : t <= u

\* TransformerBasis(basis), TransformerBasis(basis1 + basis2) or
\* TransformerBasis(basis1 * basis2) on bases the caller has just built and drops
New(k) ==
    /\ Unbound # {}
    /\ NLive + (IF k = "leaf" THEN 1 ELSE 3) <= MaxObjs
    /\ \E c \in {Let(NewBasis(k, heap, LeafArgC, LeafArgC), TWrap)} :
          Bind(NextVar, c, Call("construct", NextVar, 0, NextVar, 0, Returned))

Compose(op, t, u) ==
    /\ trans[t] # 0 /\ trans[u] # 0 /\ Unbound # {}
    /\ Size(trans[t]) + Size(trans[u]) + 1 <= MaxTemp
    /\ NLive + Size(trans[t]) + Size(trans[u]) + 1 <= MaxObjs
    /\ \E c \in {IF op = "add" THEN TAdd(heap, trans[t], trans[u])
                  ELSE TMul(heap, trans[t], trans[u])} :
          Bind(NextVar, c, Call(op, t, u, NextVar, 0, Returned))

\* t + u
Add(t, u) == Compose("add", t, u)

\* t * u
Mul(t, u) == Compose("mul", t, u)

\* the result of t ** e is bound, or the error leaves everything as it was
PowBind(t, e, p) ==
    IF p.err = "none"
    THEN Bind(NextVar, p, Call("pow", t, 0, NextVar, e, Raised("none", "")))
    ELSE /\ UNCHANGED <<heap, trans, pvars, wvars>>
         /\ last' = Call("pow", t, 0, 0, e, Raised(p.err, ""))

\* t ** e
Pow(t, e) ==
    /\ trans[t] # 0 /\ Unbound # {}
    /\ (e.type = "int" /\ e.val >= 1) =>
          /\ PowTemps(Size(trans[t]), e.val) <= MaxTemp
          /\ NLive + PowSize(Size(trans[t]), e.val) <= MaxObjs
    /\ \E p \in {TPow(heap, trans[t], e)} : PowBind(t, e, p)

\* t.set_input_shape((2,), ..., (2,)): two values per sample for every input
SetInputShapeAll(t) ==
    /\ trans[t] # 0
    /\ SetInputShape(t, [i \in 1..NInputDim(heap, trans[t]) |-> <<2>>])

\* t.fit(X) on an X of one sample and the expected number of columns
FitExpected(t) ==
    /\ trans[t] # 0
    /\ ~NotInitialized(heap, trans[t])
    /\ Fit(t, Array2(1, SumSeq(NBasisInput(heap, trans[t]))), YNone)

InitC ==
    /\ heap = EmptyHeap
    /\ trans = NoTrans
    /\ last = Call("none", 0, 0, 0, 0, Returned)
    /\ tree = NoTree /\ plast = NoCall
    /\ rc = NoBasis /\ wlast = NoCall

NextC ==
    \/ \E k \in {"leaf", "add", "mul"} : New(k)
    \/ \E t, u \in TIds : Add(t, u)
    \/ \E t, u \in TIds : Mul(t, u)
    \/ \E t \in TIds, e \in ExpSet : Pow(t, e)
    \/ \E t \in TIds : SetInputShapeAll(t)
    \/ \E t \in TIds : FitExpected(t)

SpecC == InitC /\ [][NextC]_vars

(***************************************************************************)
(* FeaturePytree, the structured feature container: a mapping from string  *)
(* keys to array blocks that share their leading (time) axis.  Its class   *)
(* is not among the source files; the model follows the specification's    *)
(* data model (section 4.5) and the documented example                     *)
(* (src/docs/api_guide/plot_03_glm_pytree.py).                             *)
(***************************************************************************)
MaxLead == 3        \* longest leading axis of the arrays a program builds

Keys == {"feature_0", "feature_1", "feature_2"}
KeySeq == <<"feature_0", "feature_1", "feature_2">>

\* len() of a container without entries
NoLen == -1

\* a value a program may hand to the container: an array of at least one
\* dimension (row i of a new array holds i), a 0-d array, or a string
Value(kind, rows, trail) == [kind |-> kind, rows |-> rows, trail |-> trail]
ArrayVal(n, trail) == Value("array", [i \in 1..n |-> i], trail)
Scalar == Value("scalar", <<>>, <<>>)
StrVal == Value("str", <<>>, <<>>)
Absent == Value("absent", <<>>, <<>>)

TrailSet == {<<>>, <<2>>}
ArraySet == {ArrayVal(n, tr) : n \in 1..MaxLead, tr \in TrailSet}
ValueSet == ArraySet \cup {Scalar, StrVal}

Tree(data, len) == [made |-> TRUE, data |-> data, len |-> len]
EmptyTree == Tree([k \in Keys |-> Absent], NoLen)
KeysOf(c) == {k \in Keys : c.data[k].kind # "absent"}

\* len(container)
PyLen(c) == c.len

\* __setitem__ that stores before it validates
PySetItemMutStoresFirst(c, key, value) ==
    IF value.kind # "array" \/ (c.len # NoLen /\ Len(value.rows) # c.len)
    THEN [tree |-> Tree([c.data EXCEPT ![key] = value], c.len), err |-> "ValueError"]
    ELSE [tree |-> Tree([c.data EXCEPT ![key] = value], Len(value.rows)),
          err |-> "none"]

\* __setitem__ without the comparison of the leading axis
PySetItemMutNoLength(c, key, value) ==
    IF value.kind # "array"
    THEN [tree |-> c, err |-> "ValueError"]
    ELSE [tree |-> Tree([c.data EXCEPT ![key] = value],
                        IF c.len = NoLen THEN Len(value.rows) ELSE c.len),
          err |-> "none"]

\* container[key] = value: the value must be an array, of the length of the
\* entries there are; the first entry establishes the length
PySetItem(c, key, value) ==
    IF value.kind # "array"
    THEN [tree |-> c, err |-> "ValueError"]
    ELSE IF c.len # NoLen /\ Len(value.rows) # c.len
    THEN [tree |-> c, err |-> "ValueError"]
    ELSE [tree |-> Tree([c.data EXCEPT ![key] = value], Len(value.rows)),
          err |-> "none"]

\* FeaturePytree(**kwargs): the named values are set one by one
RECURSIVE PyBuild(_, _, _)
PyBuild(c, kwargs, i) ==
    IF i > Len(KeySeq) THEN [tree |-> c, err |-> "none"]
    ELSE IF kwargs[KeySeq[i]].kind = "absent" THEN PyBuild(c, kwargs, i + 1)
    ELSE Let(PySetItem(c, KeySeq[i], kwargs[KeySeq[i]]), LAMBDA s :
             IF s.err # "none" THEN s ELSE PyBuild(s.tree, kwargs, i + 1))

PyInit(kwargs) == PyBuild(EmptyTree, kwargs, 1)

\* the bounds of the slice lo:hi on an axis of n elements
Clamp(i, n) ==
    IF i < 0 THEN (IF i + n < 0 THEN 0 ELSE i + n)
    ELSE IF i > n THEN n ELSE i

\* array[lo:hi]
SliceRows(rows, lo, hi) ==
    IF Clamp(hi, Len(rows)) <= Clamp(lo, Len(rows)) THEN <<>>
    ELSE SubSeq(rows, Clamp(lo, Len(rows)) + 1, Clamp(hi, Len(rows)))

SliceBlock(b, lo, hi) ==
    IF b.kind = "array" THEN Value("array", SliceRows(b.rows, lo, hi), b.trail)
    ELSE b

\* the leading axis of the blocks of a mapping, NoLen if there is none
LeadOf(data) ==
    IF \A k \in Keys : data[k].kind = "absent" THEN NoLen
    ELSE Len(data[CHOOSE k \in Keys : data[k].kind # "absent"].rows)

\* a slice that leaves the last key out of the result
PySliceMutDropsKey(c, lo, hi) ==
    Let([k \in Keys |-> IF k = KeySeq[Len(KeySeq)] THEN Absent
                        ELSE SliceBlock(c.data[k], lo, hi)],
        LAMBDA d : Tree(d, LeadOf(d)))

\* container[lo:hi]: a new container, every block sliced the same way
PySlice(c, lo, hi) ==
    Let([k \in Keys |-> SliceBlock(c.data[k], lo, hi)],
        LAMBDA d : Tree(d, LeadOf(d)))

(***************************************************************************)
(* SpecP: a container is constructed from named values, entries are        *)
(* assigned, read and the container is sliced.                             *)
(***************************************************************************)
SliceIdx == (-1)..(MaxLead + 1)

PCall(op, key, val, lo, hi, err, res) ==
    [op |-> op, key |-> key, val |-> val, lo |-> lo, hi |-> hi,
     err |-> err, res |-> res]

\* example_pytree = FeaturePytree(feature_0=..., feature_1=..., ...)
PConstruct(kwargs) ==
    /\ ~tree.made
    /\ \E s \in {PyInit(kwargs)} :
          /\ tree' = IF s.err = "none" THEN s.tree ELSE tree
          /\ plast' = PCall("construct", "", Absent, 0, 0, s.err, NoTree)
    /\ UNCHANGED <<tvars, wvars>>

\* example_pytree[key] = value
PSetItem(key, value) ==
    /\ tree.made
    /\ \E s \in {PySetItem(tree, key, value)} :
          /\ tree' = s.tree
          /\ plast' = PCall("setitem", key, value, 0, 0, s.err, NoTree)
    /\ UNCHANGED <<tvars, wvars>>

\* example_pytree[key]
PGetItem(key) ==
    /\ tree.made
    /\ key \in KeysOf(tree)
    /\ plast' = PCall("getitem", key, tree.data[key], 0, 0, "none", NoTree)
    /\ UNCHANGED <<tree, tvars, wvars>>

\* example_pytree[lo:hi]
PSlice(lo, hi) ==
    /\ tree.made
    /\ plast' = PCall("slice", "", Absent, lo, hi, "none", PySlice(tree, lo, hi))
    /\ UNCHANGED <<tree, tvars, wvars>>

InitP ==
    /\ tree = NoTree /\ plast = NoCall
    /\ heap = EmptyHeap /\ trans = NoTrans
    /\ last = Call("none", 0, 0, 0, 0, Returned)
    /\ rc = NoBasis /\ wlast = NoCall

NextP ==
    \/ \E kwargs \in [Keys -> ValueSet \cup {Absent}] : PConstruct(kwargs)
    \/ \E key \in Keys, value \in ValueSet : PSetItem(key, value)
    \/ \E key \in Keys : PGetItem(key)
    \/ \E lo \in SliceIdx, hi \in SliceIdx : PSlice(lo, hi)

SpecP == InitP /\ [][NextP]_vars

(***************************************************************************)
(* The width of the raised-cosine bases (RaisedCosineBasisLinear and its   *)
(* subclass RaisedCosineBasisLog).  A float is a number of millionths,     *)
(* or inf, -inf or nan.                                                    *)
(***************************************************************************)
Unit == 1000000         \* 1.0 in millionths

Num(v) == [kind |-> "num", val |-> v]
Inf == [kind |-> "inf", val |-> 0]
NegInf == [kind |-> "-inf", val |-> 0]
NaN == [kind |-> "nan", val |-> 0]
NoWidth == [kind |-> "none", val |-> 0]

Abs(x) == IF x < 0 THEN 0 - x ELSE x

\* 2 * width
Twice(w) == IF w.kind = "num" THEN Num(2 * w.val) ELSE w

\* width <= 1 (a comparison with nan is False)
AtMostOne(w) == w.kind = "-inf" \/ (w.kind = "num" /\ w.val <= Unit)

\* round(a) of a finite a: to the nearest integer, halves to the even one
Round(a) ==
    IF 2 * (a % Unit) < Unit THEN (a \div Unit) * Unit
    ELSE IF 2 * (a % Unit) > Unit THEN ((a \div Unit) + 1) * Unit
    ELSE IF (a \div Unit) % 2 = 0 THEN (a \div Unit) * Unit
    ELSE ((a \div Unit) + 1) * Unit

\* np.isclose(a, b) with its defaults: |a - b| <= atol + rtol * |b|,
\* atol = 1e-08 and rtol = 1e-05, both sides multiplied by 1e5 * Unit; the
\* tolerance of the widths below is under MaxDiff millionths
InvRtol == 100000
AtolScaled == 1000
MaxDiff == 1000
IsClose(a, b) ==
    /\ Abs(a - b) <= MaxDiff
    /\ Abs(a - b) * InvRtol <= AtolScaled + Abs(b)

WOutcome(err, two_w) == [err |-> err, two_w |-> two_w]

\* _check_width: the error it raises ("none": it returns) and the 2*width
\* its message shows.  round() raises OverflowError for inf and ValueError
\* ("cannot convert float NaN to integer") for nan.
CheckWidth(width) ==
    IF AtMostOne(width) THEN WOutcome("ValueError", Twice(width))
    ELSE IF width.kind = "inf" THEN WOutcome("OverflowError", NoWidth)
    ELSE IF width.kind = "nan" THEN WOutcome("ValueError", NoWidth)
    ELSE IF ~IsClose(2 * width.val, Round(2 * width.val))
    THEN WOutcome("ValueError", Twice(width))
    ELSE WOutcome("none", NoWidth)

\* RaisedCosineBasisLinear.__init__ / RaisedCosineBasisLog.__init__ as far
\* as the width goes: the basis made, or the error
RCInit(cls, width) ==
    IF CheckWidth(width).err # "none"
    THEN [basis |-> NoBasis, out |-> CheckWidth(width)]
    ELSE [basis |-> [cls |-> cls, width |-> width], out |-> CheckWidth(width)]

\* the setter of the property width
RCSetWidth(basis, width) ==
    IF CheckWidth(width).err # "none"
    THEN [basis |-> basis, out |-> CheckWidth(width)]
    ELSE [basis |-> [basis EXCEPT !.width = width], out |-> CheckWidth(width)]

(***************************************************************************)
(* SpecW: raised-cosine bases are constructed and their width is assigned. *)
(***************************************************************************)
WidthSet ==
    {Num(v) : v \in {500000, 1000000, 1000001, 1250000, 1499900, 1499990,
                     1500000, 1500001, 2000000, 2500000, 3000000}}
    \cup {Inf, NegInf, NaN}

ClsSet == {"linear", "log"}

WCall(op, cls, arg, out) ==
    [op |-> op, cls |-> cls, arg |-> arg, err |-> out.err, two_w |-> out.two_w]

\* basis = RaisedCosineBasisLinear(n, width=width), or ...Log(...); a
\* constructor that raises leaves the variable as it was
WConstruct(cls, width) ==
    /\ \E r \in {RCInit(cls, width)} :
          /\ rc' = IF r.out.err = "none" THEN r.basis ELSE rc
          /\ wlast' = WCall("init", cls, width, r.out)
    /\ UNCHANGED <<tvars, pvars>>

\* basis.width = width
WSetWidth(width) ==
    /\ rc.cls # "none"
    /\ \E r \in {RCSetWidth(rc, width)} :
          /\ rc' = r.basis
          /\ wlast' = WCall("set", rc.cls, width, r.out)
    /\ UNCHANGED <<tvars, pvars>>

InitW ==
    /\ rc = NoBasis /\ wlast = NoCall
    /\ heap = EmptyHeap /\ trans = NoTrans
    /\ last = Call("none", 0, 0, 0, 0, Returned)
    /\ tree = NoTree /\ plast = NoCall

NextW ==
    \/ \E cls \in ClsSet, width \in WidthSet : WConstruct(cls, width)
    \/ \E width \in WidthSet : WSetWidth(width)

SpecW == InitW /\ [][NextW]_vars

(***************************************************************************)
(* Claims C1-C3: the input-shape contract of fit / transform.              *)
(***************************************************************************)
IsFitCall(c) == c.op \in {"fit", "fit_transform"}
IsDataCall(c) == c.op \in {"fit", "transform", "fit_transform"}
ExpectedCols(h, t) == SumSeq(NBasisInput(h, trans[t]))

\* the call recorded in c got a 2-D X whose column count is not the
\* remembered total of the basis of c.t in heap h
Mismatched(c, h) ==
    /\ ~NotInitialized(h, trans[c.t])
    /\ c.arg.ndim = 2
    /\ c.arg.shape[2] # ExpectedCols(h, c.t)

C2_FitRejectsMismatch ==
    [][(IsFitCall(last') /\ Mismatched(last', heap))
        => /\ last'.out.err = "ValueError"
           /\ last'.out.expected = ExpectedCols(heap, last'.t)
           /\ last'.out.got = last'.arg.shape[2]
           /\ heap' = heap]_vars

C2_Witness ==
    /\ IsFitCall(last)
    /\ Mismatched(last, heap)
    /\ last.out.err = "ValueError"
    /\ last.out.expected = 3
    /\ last.out.got = 2
    /\ KernelMissing(heap, trans[last.t])

\* C3: with the input shape established, transform on a 2-D X whose column
\* count is not the remembered total raises a ValueError that reports the
\* expected and the actual count, and returns no features.  (transform leaves
\* the heap as it is, so the remembered total is read after the call.)
C3_TransformRejectsMismatch ==
    (last.op = "transform" /\ Mismatched(last, heap))
        => /\ last.out.err = "ValueError"
           /\ last.out.expected = ExpectedCols(heap, last.t)
           /\ last.out.got = last.arg.shape[2]
           /\ last.out.feat = None

(***************************************************************************)
(* Claims C4-C6: composition of bases through TransformerBasis.            *)
(***************************************************************************)
IsCompose(c) == c.op \in {"add", "mul"}

RECURSIVE PowVal(_, _)
PowVal(v, k) ==
    IF k <= 1 THEN v
    ELSE [kind |-> "mul", basis1 |-> PowVal(v, k - 1), basis2 |-> v]

\* C6: t ** e raises TypeError for an e that is no integer and ValueError
\* for an integer e < 1, changing nothing; for an integer e >= 1 the result
\* is the product of e copies of the basis of t, the basis itself for e = 1.
C6_Pow ==
    [][last'.op = "pow"
        => IF last'.arg.type # "int"
           THEN last'.out.err = "TypeError" /\ heap' = heap /\ trans' = trans
           ELSE IF last'.arg.val < 1
           THEN last'.out.err = "ValueError" /\ heap' = heap /\ trans' = trans
           ELSE /\ last'.out.err = "none"
                /\ Val(heap', trans'[last'.new])
                     = PowVal(Val(heap, trans[last'.t]), last'.arg.val)]_vars

\* t ** 1 on a fitted composite: a new object with the value of the operand
C6_Witness ==
    /\ last.op = "pow" /\ last.arg = [type |-> "int", val |-> 1]
    /\ last.out.err = "none"
    /\ trans[last.new] # trans[last.t]
    /\ heap[trans[last.t]].kind = "mul"
    /\ ~KernelMissing(heap, trans[last.t])
    /\ Val(heap, trans[last.new]) = Val(heap, trans[last.t])
    /\ NBasisFuncs(heap, trans[last.new]) = 9

(***************************************************************************)
(* Claims C7-C9: the structured feature container.                         *)
(***************************************************************************)
\* every entry of c is an array whose leading axis has len(c) elements
Consistent(c) ==
    \A k \in KeysOf(c) :
        /\ c.data[k].kind = "array"
        /\ Len(c.data[k].rows) = PyLen(c)

\* C7: in every state of a container, after construction and accepted or
\* rejected assignments, every value is an array, all blocks have the same
\* leading size, and len(container) is that size; the same holds of the
\* container a slice returns.
C7_ContainerInvariant ==
    /\ tree.made => Consistent(tree)
    /\ plast.op = "slice" => Consistent(plast.res)

\* three blocks of three rows and of different trailing shapes, just after a
\* rejected assignment
C7_Witness ==
    /\ tree.made
    /\ KeysOf(tree) = Keys
    /\ PyLen(tree) = 3
    /\ \E j, k \in Keys : tree.data[j].trail # tree.data[k].trail
    /\ plast.op = "setitem" /\ plast.err = "ValueError"

\* the assignment recorded in c was of a value that is no array, or of an
\* array under a new key whose leading size is not that of the blocks of t
BadAssignment(c, t) ==
    \/ c.val.kind # "array"
    \/ /\ c.key \notin KeysOf(t)
       /\ KeysOf(t) # {}
       /\ Len(c.val.rows) # PyLen(t)

\* C8: an assignment of a non-array, or of an array under a new key with a
\* leading size other than that of the existing blocks, raises ValueError
\* and leaves the container with the keys and blocks it had; an assignment
\* of an array to an empty container is accepted and establishes the length.
C8_AssignmentRejected ==
    [][plast'.op = "setitem"
        => /\ BadAssignment(plast', tree)
                => (plast'.err = "ValueError" /\ tree' = tree)
           /\ (plast'.val.kind = "array" /\ KeysOf(tree) = {})
                => /\ plast'.err = "none"
                   /\ KeysOf(tree') = {plast'.key}
                   /\ PyLen(tree') = Len(plast'.val.rows)]_vars

\* two blocks of three rows; a third key with two rows has been refused
C8_Witness ==
    /\ plast.op = "setitem" /\ plast.err = "ValueError"
    /\ plast.val.kind = "array" /\ Len(plast.val.rows) = 2
    /\ plast.key \notin KeysOf(tree)
    /\ Cardinality(KeysOf(tree)) = 2
    /\ PyLen(tree) = 3

ValidWidth(w) ==
    /\ w.kind = "num"
    /\ w.val > Unit
    /\ (2 * w.val) % Unit = 0

\* C10: constructing a raised-cosine basis with, or assigning to its width,
\* a value with width <= 1 or with 2*width not an integer raises a
\* ValueError whose message shows 2*width and leaves the previous width in
\* place; so the width a basis holds is > 1 and its double is an integer.
C10_NeverInvalidWidth ==
    [][wlast'.op \in {"init", "set"}
        => /\ ~ValidWidth(wlast'.arg)
                => /\ wlast'.err = "ValueError"
                   /\ wlast'.two_w = Twice(wlast'.arg)
                   /\ rc' = rc
           /\ rc'.cls # "none" => ValidWidth(rc'.width)]_vars

(***************************************************************************)
(* The hyperparameters of the raised-cosine bases: n_basis_funcs and       *)
(* width of RaisedCosineBasisLinear, and time_scaling and                  *)
(* enforce_decay_to_zero of RaisedCosineBasisLog.                          *)
(***************************************************************************)
MaxN == 4               \* largest n_basis_funcs a program asks for

DefaultTimeScaling == 50

\* the argument None
NoneArg == [kind |-> "None", val |-> 0]

RCBasis(cls, n, width, ts, decay) ==
    [cls |-> cls, n_basis_funcs |-> n, width |-> width,
     time_scaling |-> ts, enforce_decay_to_zero |-> decay]

\* time_scaling <= 0 (a comparison with nan is False)
AtMostZero(x) == x.kind = "-inf" \/ (x.kind = "num" /\ x.val <= 0)

\* RaisedCosineBasisLog._check_time_scaling: the error it raises
CheckTimeScaling(time_scaling) ==
    IF AtMostZero(time_scaling) THEN "ValueError" ELSE "none"

\* _check_n_basis_min that asks for one basis function only
CheckNBasisMinMutOne(basis) ==
    IF basis.n_basis_funcs < 1 THEN "ValueError" ELSE "none"

\* RaisedCosineBasisLinear._check_n_basis_min: the error it raises
CheckNBasisMin(basis) ==
    IF basis.n_basis_funcs < 2 THEN "ValueError" ELSE "none"

RCResult(basis, err) == [basis |-> basis, err |-> err]

\* Basis.__init__ stores n_basis_funcs and checks the minimum of the family
BasisInit(cls, n) ==
    Let(RCBasis(cls, n, NoWidth, NoWidth, FALSE), LAMBDA b :
        IF CheckNBasisMin(b) # "none" THEN RCResult(NoBasis, CheckNBasisMin(b))
        ELSE RCResult(b, "none"))

\* RaisedCosineBasisLinear.__init__: Basis.__init__, then the width
LinearInit(cls, n, width) ==
    Let(BasisInit(cls, n), LAMBDA b :
        IF b.err # "none" THEN b
        ELSE IF CheckWidth(width).err # "none"
        THEN RCResult(NoBasis, CheckWidth(width).err)
        ELSE RCResult([b.basis EXCEPT !.width = width], "none"))

\* time_scaling = 50.0 if it is None
TimeScalingOrDefault(time_scaling) ==
    IF time_scaling = NoneArg THEN Num(DefaultTimeScaling * Unit) ELSE time_scaling

\* RaisedCosineBasisLog.__init__: the linear constructor, then time_scaling
\* through its setter, then enforce_decay_to_zero
LogInit(n, width, time_scaling, decay) ==
    Let(LinearInit("log", n, width), LAMBDA b :
        IF b.err # "none" THEN b
        ELSE IF CheckTimeScaling(TimeScalingOrDefault(time_scaling)) # "none"
        THEN RCResult(NoBasis, CheckTimeScaling(TimeScalingOrDefault(time_scaling)))
        ELSE RCResult([b.basis EXCEPT
                          !.time_scaling = TimeScalingOrDefault(time_scaling),
                          !.enforce_decay_to_zero = decay], "none"))

\* the setter of the property time_scaling
SetTimeScaling(basis, time_scaling) ==
    IF CheckTimeScaling(time_scaling) # "none"
    THEN RCResult(basis, CheckTimeScaling(time_scaling))
    ELSE RCResult([basis EXCEPT !.time_scaling = time_scaling], "none")

\* the setter of n_basis_funcs: the new count is checked against the
\* minimum of the family, a rejected count leaves the old one
SetNBasisFuncs(basis, n) ==
    IF CheckNBasisMin([basis EXCEPT !.n_basis_funcs = n]) # "none"
    THEN RCResult(basis, CheckNBasisMin([basis EXCEPT !.n_basis_funcs = n]))
    ELSE RCResult([basis EXCEPT !.n_basis_funcs = n], "none")

(***************************************************************************)
(* The peaks of the raised cosines, in exact fractions num/den, den > 0,   *)
(* in lowest terms.                                                        *)
(***************************************************************************)
RECURSIVE Gcd(_, _)
Gcd(a, b) == IF b = 0 THEN a ELSE Gcd(b, a % b)

Frac(a, b) ==
    Let(Gcd(Abs(a), Abs(b)), LAMBDA g :
        IF b < 0 THEN [num |-> (0 - a) \div g, den |-> (0 - b) \div g]
        ELSE [num |-> a \div g, den |-> b \div g])

FInt(k) == [num |-> k, den |-> 1]
FAdd(x, y) == Frac(x.num * y.den + y.num * x.den, x.den * y.den)
FSub(x, y) == Frac(x.num * y.den - y.num * x.den, x.den * y.den)
FMul(x, y) == Frac(x.num * y.num, x.den * y.den)
FDiv(x, y) == Frac(x.num * y.den, x.den * y.num)
FLess(x, y) == x.num * y.den < y.num * x.den

\* the width as a fraction
WidthFrac(width) == Frac(width.val, Unit)

\* np.linspace(start, stop, num): start + i * step for i = 0 .. num - 1 with
\* step = (stop - start) / (num - 1), the last point set to stop
Linspace(start, stop, num) ==
    IF num = 1 THEN <<start>>
    ELSE [i \in 1..num |->
            IF i = num THEN stop
            ELSE FAdd(start, FMul(FInt(i - 1), FDiv(FSub(stop, start), FInt(num - 1))))]

\* last_peak that leaves the "- 1" out of the denominator
LastPeakMutDenominator(basis) ==
    IF basis.enforce_decay_to_zero
    THEN FSub(FInt(1), FDiv(WidthFrac(basis.width),
                            FAdd(FInt(basis.n_basis_funcs), WidthFrac(basis.width))))
    ELSE FInt(1)

\* RaisedCosineBasisLog._compute_peaks: last_peak
LastPeak(basis) ==
    IF basis.enforce_decay_to_zero
    THEN FSub(FInt(1), FDiv(WidthFrac(basis.width),
                            FSub(FAdd(FInt(basis.n_basis_funcs), WidthFrac(basis.width)),
                                 FInt(1))))
    ELSE FInt(1)

\* _compute_peaks of the linear and of the log basis
ComputePeaks(basis) ==
    IF basis.cls = "log"
    THEN Linspace(FInt(0), LastPeak(basis), basis.n_basis_funcs)
    ELSE Linspace(FInt(0), FInt(1), basis.n_basis_funcs)

\* __call__: delta = peaks[1] - peaks[0]
Delta(peaks) == FSub(peaks[2], peaks[1])

(***************************************************************************)
(* SpecL: raised-cosine bases are constructed, their hyperparameters are   *)
(* assigned and their peaks are computed.                                  *)
(***************************************************************************)
NSet == 1..MaxN

LWidthSet == {Num(Unit), Num(1500000), Num(2000000), Num(2500000)}

TimeScalingSet ==
    {Num(0), Num(500000), Num(DefaultTimeScaling * Unit), Inf, NegInf, NaN}

NoPeaks == <<>>

LCall(op, arg, err, peaks) == [op |-> op, arg |-> arg, err |-> err, peaks |-> peaks]

\* basis = RaisedCosineBasisLinear(n, width=width); a constructor that
\* raises leaves the variable as it was
LConstructLinear(n, width) ==
    /\ \E r \in {LinearInit("linear", n, width)} :
          /\ rc' = IF r.err = "none" THEN r.basis ELSE rc
          /\ wlast' = LCall("init", [n |-> n, time_scaling |-> NoWidth], r.err, NoPeaks)
    /\ UNCHANGED <<tvars, pvars>>

\* basis = RaisedCosineBasisLog(n, width=width, time_scaling=time_scaling,
\*                              enforce_decay_to_zero=decay)
LConstructLog(n, width, time_scaling, decay) ==
    /\ \E r \in {LogInit(n, width, time_scaling, decay)} :
          /\ rc' = IF r.err = "none" THEN r.basis ELSE rc
          /\ wlast' = LCall("init", [n |-> n, time_scaling |-> time_scaling],
                            r.err, NoPeaks)
    /\ UNCHANGED <<tvars, pvars>>

\* basis.time_scaling = time_scaling
LSetTimeScaling(time_scaling) ==
    /\ rc.cls = "log"
    /\ \E r \in {SetTimeScaling(rc, time_scaling)} :
          /\ rc' = r.basis
          /\ wlast' = LCall("set_time_scaling", time_scaling, r.err, NoPeaks)
    /\ UNCHANGED <<tvars, pvars>>

\* basis.n_basis_funcs = n
LSetNBasisFuncs(n) ==
    /\ rc.cls # "none"
    /\ \E r \in {SetNBasisFuncs(rc, n)} :
          /\ rc' = r.basis
          /\ wlast' = LCall("set_n_basis_funcs", n, r.err, NoPeaks)
    /\ UNCHANGED <<tvars, pvars>>

\* basis.width = width
LSetWidth(width) ==
    /\ rc.cls # "none"
    /\ \E r \in {RCSetWidth(rc, width)} :
          /\ rc' = r.basis
          /\ wlast' = LCall("set_width", width, r.out.err, NoPeaks)
    /\ UNCHANGED <<tvars, pvars>>

\* basis.enforce_decay_to_zero = decay
LSetDecay(decay) ==
    /\ rc.cls = "log"
    /\ rc' = [rc EXCEPT !.enforce_decay_to_zero = decay]
    /\ wlast' = LCall("set_decay", decay, "none", NoPeaks)
    /\ UNCHANGED <<tvars, pvars>>

\* the evaluation of the basis as far as its peaks go
LComputePeaks ==
    /\ rc.cls # "none"
    /\ rc' = rc
    /\ wlast' = LCall("peaks", rc.n_basis_funcs, "none", ComputePeaks(rc))
    /\ UNCHANGED <<tvars, pvars>>

InitL ==
    /\ rc = NoBasis /\ wlast = NoCall
    /\ heap = EmptyHeap /\ trans = NoTrans
    /\ last = Call("none", 0, 0, 0, 0, Returned)
    /\ tree = NoTree /\ plast = NoCall

NextL ==
    \/ \E n \in NSet, width \in LWidthSet : LConstructLinear(n, width)
    \/ \E n \in NSet, width \in LWidthSet, ts \in TimeScalingSet \cup {NoneArg},
          decay \in BOOLEAN : LConstructLog(n, width, ts, decay)
    \/ \E ts \in TimeScalingSet : LSetTimeScaling(ts)
    \/ \E n \in NSet : LSetNBasisFuncs(n)
    \/ \E width \in LWidthSet : LSetWidth(width)
    \/ \E decay \in BOOLEAN : LSetDecay(decay)
    \/ LComputePeaks

SpecL == InitL /\ [][NextL]_vars

(***************************************************************************)
(* C11                                                                     *)
(***************************************************************************)
Positive(x) == x.kind = "inf" \/ (x.kind = "num" /\ x.val > 0)

\* C11: a log raised-cosine basis never holds a time_scaling that is not
\* strictly positive: in every state with a log basis, time_scaling > 0.
C11_TimeScalingPositive == rc.cls = "log" => Positive(rc.time_scaling)

\* for every time_scaling that is a number (nan excluded) the statement is
\* kept: such a value <= 0 raises ValueError and leaves the basis as it
\* was, and None gives 50.0
C11_NumbersChecked ==
    [][/\ (wlast'.op = "set_time_scaling" /\ wlast'.arg.kind # "nan")
            => IF Positive(wlast'.arg)
               THEN wlast'.err = "none" /\ rc'.time_scaling = wlast'.arg
               ELSE wlast'.err = "ValueError" /\ rc' = rc
       /\ (wlast'.op = "init" /\ wlast'.arg.time_scaling = NoneArg /\ wlast'.err = "none")
            => rc'.time_scaling = Num(DefaultTimeScaling * Unit)
      ]_vars

\* a time_scaling of zero was assigned to a log basis and rejected
C11_Witness ==
    /\ wlast.op = "set_time_scaling" /\ wlast.arg = Num(0)
    /\ wlast.err = "ValueError" /\ rc.cls = "log"

(***************************************************************************)
(* C12                                                                     *)
(***************************************************************************)
\* C12: a raised-cosine basis with fewer than two basis functions is
\* rejected with ValueError when it is constructed and when n_basis_funcs is
\* assigned, the basis held staying as it was, so that no basis evaluated
\* has fewer than two; n_basis_funcs = 2 is accepted.
C12_MinBasisFuncs ==
    [][/\ (wlast'.op = "init" /\ wlast'.arg.n < 2)
            => wlast'.err = "ValueError" /\ rc' = rc
       /\ (wlast'.op = "set_n_basis_funcs" /\ wlast'.arg < 2)
            => wlast'.err = "ValueError" /\ rc' = rc
       /\ (wlast'.op = "set_n_basis_funcs" /\ wlast'.arg >= 2)
            => wlast'.err = "none" /\ rc'.n_basis_funcs = wlast'.arg
       /\ (wlast'.op = "peaks")
            => wlast'.err = "none" /\ rc.n_basis_funcs >= 2
                 /\ Len(wlast'.peaks) = rc.n_basis_funcs
       /\ rc'.cls # "none" => rc'.n_basis_funcs >= 2
      ]_vars

\* one basis function was assigned to a basis and rejected
C12_Witness ==
    /\ wlast.op = "set_n_basis_funcs" /\ wlast.arg = 1
    /\ wlast.err = "ValueError" /\ rc.cls # "none"

(***************************************************************************)
(* C19                                                                     *)
(***************************************************************************)
\* n_basis_funcs + width - 1
PeakDenominator(basis) ==
    FSub(FAdd(FInt(basis.n_basis_funcs), WidthFrac(basis.width)), FInt(1))

BasisAttrs == {"n_basis_funcs", "window_size", "bounds", "set_params"}

ALeaf(n, mode, ws, shape, nin, bounds) ==
    Leaf(n, mode, ws, shape, nin) @@ [bounds |-> bounds, set_params |-> "method"]

\* hasattr(basis, name) of a one-dimensional basis
HasAttr(h, b, name) == name \in BasisAttrs

\* getattr(basis, name) of a one-dimensional basis
BasisGetAttr(h, b, name) ==
    IF name = "n_basis_funcs" THEN h[b].n_basis_funcs
    ELSE IF name = "window_size" THEN h[b].window_size
    ELSE IF name = "bounds" THEN h[b].bounds
    ELSE h[b].set_params

SetResult(h, err) == [heap |-> h, err |-> err]

\* setattr(basis, name, value) of a one-dimensional basis: n_basis_funcs and
\* window_size are validated and invalidate the cached kernel, bounds that
\* are set stay as they are, anything else is a plain attribute
BasisSetAttr(h, b, name, value) ==
    IF name = "n_basis_funcs"
    THEN IF value < 1 THEN SetResult(h, "ValueError")
         ELSE SetResult([h EXCEPT ![b].n_basis_funcs = value, ![b].kernel_ = None], "none")
    ELSE IF name = "window_size"
    THEN IF h[b].mode = "conv" /\ value < 1 THEN SetResult(h, "ValueError")
         ELSE SetResult([h EXCEPT ![b].window_size = value, ![b].kernel_ = None], "none")
    ELSE IF name = "bounds"
    THEN IF h[b].mode = "eval" /\ h[b].bounds # None THEN SetResult(h, "ValueError")
         ELSE SetResult([h EXCEPT ![b].bounds = value], "none")
    ELSE SetResult([h EXCEPT ![b].set_params = value], "none")

\* basis.set_params(**parameters): the parameters are assigned one after
\* the other, a name that is no parameter raises ValueError
RECURSIVE BasisSetParams(_, _, _)
BasisSetParams(h, b, parameters) ==
    IF parameters = <<>> THEN SetResult(h, "none")
    ELSE IF Head(parameters).name \notin BasisAttrs \ {"set_params"}
    THEN SetResult(h, "ValueError")
    ELSE Let(BasisSetAttr(h, b, Head(parameters).name, Head(parameters).value),
             LAMBDA s : IF s.err # "none" THEN s
                        ELSE BasisSetParams(s.heap, b, Tail(parameters)))

(***************************************************************************)
(* TransformerBasis: __setattr__, __getattr__, set_params, the chaining of *)
(* methods and __sklearn_clone__.  A value returned is the transformer     *)
(* called, a basis object, or None.                                        *)
(***************************************************************************)
RetSelf == [kind |-> "transformer", id |-> 0]
RetBasis(b) == [kind |-> "basis", id |-> b]
RetNone == [kind |-> "None", id |-> 0]

\* the names the class TransformerBasis defines, which an attribute read
\* finds before __getattr__ is asked
OwnNames == {"set_params", "get_params", "fit", "transform", "fit_transform"}

ChainableMethods ==
    {"set_kernel", "set_input_shape", "_set_input_independent_states", "setup_basis"}

AttrResult(h, root, err) == [heap |-> h, root |-> root, err |-> err]

\* __setattr__ that puts the value in the basis without its setter
TSetAttrMutWritesField(h, root, name, value) ==
    IF name = "_basis" THEN AttrResult(h, value, "none")
    ELSE IF name = "basis"
    THEN IF NotInitialized(h, value) THEN AttrResult(h, root, "RuntimeError")
         ELSE AttrResult(h, value, "none")
    ELSE IF HasAttr(h, root, name)
    THEN AttrResult([h EXCEPT ![root] =
                        IF name = "n_basis_funcs" THEN [@ EXCEPT !.n_basis_funcs = value]
                        ELSE IF name = "window_size" THEN [@ EXCEPT !.window_size = value]
                        ELSE IF name = "bounds" THEN [@ EXCEPT !.bounds = value]
                        ELSE [@ EXCEPT !.set_params = value]],
                    root, "none")
    ELSE AttrResult(h, root, "ValueError")

\* __setattr__ that accepts every name
TSetAttrMutNoRaise(h, root, name, value) ==
    IF name = "_basis" THEN AttrResult(h, value, "none")
    ELSE IF name = "basis"
    THEN IF NotInitialized(h, value) THEN AttrResult(h, root, "RuntimeError")
         ELSE AttrResult(h, value, "none")
    ELSE IF HasAttr(h, root, name)
    THEN Let(BasisSetAttr(h, root, name, value),
             LAMBDA s : AttrResult(s.heap, root, s.err))
    ELSE AttrResult(h, root, "none")

\* __setattr__ with a basis setter that does not call _check_initialized
TSetAttrMutNoCheck(h, root, name, value) ==
    IF name \in {"_basis", "basis"} THEN AttrResult(h, value, "none")
    ELSE IF HasAttr(h, root, name)
    THEN Let(BasisSetAttr(h, root, name, value),
             LAMBDA s : AttrResult(s.heap, root, s.err))
    ELSE AttrResult(h, root, "ValueError")

\* TransformerBasis.__setattr__: the heap, the wrapped basis and the error
\* it leaves.  The name basis is a property whose setter checks the basis.
TSetAttr(h, root, name, value) ==
    IF name = "_basis" THEN AttrResult(h, value, "none")
    ELSE IF name = "basis"
    THEN IF NotInitialized(h, value) THEN AttrResult(h, root, "RuntimeError")
         ELSE AttrResult(h, value, "none")
    ELSE IF HasAttr(h, root, name)
    THEN Let(BasisSetAttr(h, root, name, value),
             LAMBDA s : AttrResult(s.heap, root, s.err))
    ELSE AttrResult(h, root, "ValueError")

ReadResult(value, err) == [value |-> value, err |-> err]

\* transformer.name read
TGetAttr(h, root, name) ==
    IF name \in OwnNames THEN ReadResult("TransformerBasis." \o name, "none")
    ELSE IF name \in {"_basis", "basis"} THEN ReadResult(root, "none")
    ELSE IF HasAttr(h, root, name) THEN ReadResult(BasisGetAttr(h, root, name), "none")
    ELSE ReadResult(None, "AttributeError")

\* transformer_chaining that hands the result of the basis on as it is
TransformerChainingMutNoSelf(result, root) == result

\* transformer_chaining: the outer self for the inner one
TransformerChaining(result, root) ==
    IF result = RetBasis(root) THEN RetSelf ELSE result

ParamsResult(h, root, err, ret) == [heap |-> h, root |-> root, err |-> err, ret |-> ret]

\* parameters.pop("_basis", None); None is 0, no object
NoneBasis == 0
BasisArg(given, value) == [given |-> given, value |-> value]
PopBasis(arg) == IF arg.given THEN arg.value ELSE NoneBasis

\* basis.set_params can be called
SetParamsCallable(h, b) == IsComposite(h, b) \/ h[b].set_params = "method"

\* set_params that lets _basis come with other parameters
TSetParamsMutAllowsMix(h, root, arg, parameters) ==
    IF PopBasis(arg) # NoneBasis
    THEN ParamsResult(h, PopBasis(arg), "none", RetSelf)
    ELSE IF ~SetParamsCallable(h, root)
    THEN ParamsResult(h, root, "TypeError", RetNone)
    ELSE Let(BasisSetParams(h, root, parameters), LAMBDA s :
             IF s.err # "none" THEN ParamsResult(s.heap, root, s.err, RetNone)
             ELSE ParamsResult(s.heap, root, "none", RetSelf))

\* set_params that writes the bounds into the basis itself
TSetParamsMutWritesFields(h, root, arg, parameters) ==
    IF PopBasis(arg) # NoneBasis
    THEN IF Len(parameters) > 0
         THEN ParamsResult(h, PopBasis(arg), "ValueError", RetNone)
         ELSE ParamsResult(h, PopBasis(arg), "none", RetSelf)
    ELSE IF ~SetParamsCallable(h, root)
    THEN ParamsResult(h, root, "TypeError", RetNone)
    ELSE IF parameters # <<>> /\ Head(parameters).name = "bounds"
    THEN ParamsResult([h EXCEPT ![root].bounds = Head(parameters).value],
                      root, "none", RetSelf)
    ELSE Let(BasisSetParams(h, root, parameters), LAMBDA s :
             IF s.err # "none" THEN ParamsResult(s.heap, root, s.err, RetNone)
             ELSE ParamsResult(s.heap, root, "none", RetSelf))

\* TransformerBasis.set_params(_basis=arg, **parameters): a new basis is
\* stored before the other parameters are looked at
TSetParams(h, root, arg, parameters) ==
    IF PopBasis(arg) # NoneBasis
    THEN IF Len(parameters) > 0
         THEN ParamsResult(h, PopBasis(arg), "ValueError", RetNone)
         ELSE ParamsResult(h, PopBasis(arg), "none", RetSelf)
    ELSE IF ~SetParamsCallable(h, root)
    THEN ParamsResult(h, root, "TypeError", RetNone)
    ELSE Let(BasisSetParams(h, root, parameters), LAMBDA s :
             IF s.err # "none" THEN ParamsResult(s.heap, root, s.err, RetNone)
             ELSE ParamsResult(s.heap, root, "none", RetSelf))

\* cloned_obj._basis.kernel_ = None: the attribute of the object wrapped (a
\* composite's components are other objects)
ResetKernel(c) ==
    [heap |-> IF IsComposite(c.heap, c.root) THEN c.heap
              ELSE [c.heap EXCEPT ![c.root].kernel_ = None],
     root |-> c.root]

\* __sklearn_clone__ that wraps the basis of the original
TSklearnCloneMutShares(h, root) == ResetKernel([heap |-> h, root |-> root])

\* TransformerBasis.__sklearn_clone__: a deep copy, copied once more by
\* __init__, with kernel_ = None
TSklearnClone(h, root) ==
    Let(DeepCopy(h, root), LAMBDA c : Let(TWrap(c), ResetKernel))

(***************************************************************************)
(* SpecA: a TransformerBasis (variable 1) and its clone (variable 2) have  *)
(* attributes assigned and parameters set, are fitted, applied and cloned. *)
(***************************************************************************)
NewALeaf(a, initialized) ==
    ALeaf(a.n, a.mode, a.ws, <<>>, IF initialized THEN <<1>> ELSE None, None)

\* the names a program assigns that are not _basis or basis
AssignedNames == BasisAttrs \cup {"random_attribute_name"}

\* the values a program assigns
ValuesOf(name) ==
    IF name \in {"n_basis_funcs", "window_size"} THEN {0, 4}
    ELSE IF name = "bounds" THEN {<<0, 1>>, <<0, 2>>}
    ELSE {"some value"}

AXSet == {Array2(1, 1), Array2(1, 2)}

ACall(op, t, name, arg, err, ret) ==
    [op |-> op, t |-> t, name |-> name, arg |-> arg, err |-> err, ret |-> ret]

\* the program works on the transformer, clones it, and then works on the
\* clone: t is the variable it works on
Turn(t) == trans[t] # 0 /\ (t = 1 => trans[2] = 0)

\* transformer.name = value
ASetAttr(t, name, value) ==
    /\ Turn(t)
    /\ IsComposite(heap, trans[t]) => name \notin BasisAttrs
    /\ \E r \in {TSetAttr(heap, trans[t], name, value)} :
          /\ heap' = r.heap
          /\ last' = ACall("setattr", t, name, value, r.err, RetNone)
    /\ UNCHANGED <<trans, pvars, wvars>>

\* transformer._basis = basis or transformer.basis = basis, for a basis the
\* caller has just built (and given an input shape, or not)
ASetBasis(t, name, a, initialized) ==
    /\ Turn(t)
    /\ \E c \in {Alloc(heap, NewALeaf(a, initialized))} :
       \E r \in {TSetAttr(c.heap, trans[t], name, c.root)} :
          /\ trans' = [trans EXCEPT ![t] = r.root]
          /\ heap' = Collect(r.heap, [trans EXCEPT ![t] = r.root])
          /\ last' = ACall("setattr", t, name, c.root, r.err, RetNone)
    /\ UNCHANGED <<pvars, wvars>>

\* transformer.set_params(**parameters), with no _basis among them, with
\* _basis=None, or with a basis the caller has just built
ASetParams(t, given, a, parameters) ==
    /\ Turn(t)
    /\ (IsComposite(heap, trans[t]) /\ given # "basis") => parameters = <<>>
    /\ \E c \in {IF given = "basis" THEN Alloc(heap, NewALeaf(a, TRUE))
                 ELSE [heap |-> heap, root |-> NoneBasis]} :
       \E r \in {TSetParams(c.heap, trans[t], BasisArg(given # "absent", c.root),
                            parameters)} :
          /\ trans' = [trans EXCEPT ![t] = r.root]
          /\ heap' = Collect(r.heap, [trans EXCEPT ![t] = r.root])
          /\ last' = ACall("set_params", t, given,
                           [new |-> c.root, parameters |-> parameters], r.err, r.ret)
    /\ UNCHANGED <<pvars, wvars>>

\* what a method of the basis returns: the basis, None, or another basis
\* object (a component of a composite)
ResultKinds == {"self", "None", "component"}
ResultOf(h, root, kind) ==
    IF kind = "self" THEN RetBasis(root)
    ELSE IF kind = "component" /\ IsComposite(h, root) THEN RetBasis(h[root].basis1)
    ELSE RetNone

\* transformer.set_input_shape(...), transformer.set_kernel(),
\* transformer._set_input_independent_states() or
\* transformer.setup_basis(...), the method of the basis returning result
AChain(t, name, result) ==
    /\ Turn(t)
    /\ heap' = IF name = "set_input_shape"
               THEN BasisSetInputShape(heap, trans[t],
                                       [i \in 1..NInputDim(heap, trans[t]) |-> <<>>])
               ELSE IF name \in {"set_kernel", "_set_input_independent_states"}
               THEN BasisSetKernel(heap, trans[t])
               ELSE BasisSetupBasis(heap, trans[t],
                                    [i \in 1..NInputDim(heap, trans[t]) |-> Array2(1, 1)])
    /\ last' = ACall("chain", t, name, ResultOf(heap, trans[t], result), "none",
                     TransformerChaining(ResultOf(heap, trans[t], result), trans[t]))
    /\ UNCHANGED <<trans, pvars, wvars>>

\* transformer.fit(X), which returns self
AFit(t, X) ==
    /\ Turn(t)
    /\ \E f \in {TFit(heap, trans[t], X, YNone)} :
          /\ heap' = f.heap
          /\ last' = ACall("fit", t, "", X, f.out.err,
                           IF f.out.err = "none" THEN RetSelf ELSE RetNone)
    /\ UNCHANGED <<trans, pvars, wvars>>

\* transformer.transform(X)
ATransform(t, X) ==
    /\ Turn(t)
    /\ \E f \in {TTransform(heap, trans[t], X)} :
          /\ heap' = f.heap
          /\ last' = ACall("transform", t, "", X, f.out.err, RetNone)
    /\ UNCHANGED <<trans, pvars, wvars>>

\* clone = transformer.__sklearn_clone__()
AClone ==
    /\ trans[1] # 0 /\ trans[2] = 0
    /\ \E c \in {TSklearnClone(heap, trans[1])} :
          /\ trans' = [trans EXCEPT ![2] = c.root]
          /\ heap' = Collect(c.heap, [trans EXCEPT ![2] = c.root])
          /\ last' = ACall("clone", 1, "", 0, "none", RetBasis(c.root))
    /\ UNCHANGED <<pvars, wvars>>

\* TransformerBasis(basis) on a basis the caller has just built: a
\* one-dimensional basis, or the sum of two
AInitWrapped ==
    {Let(Alloc(EmptyHeap, NewALeaf(a, FALSE)), TWrap) : a \in LeafArgs}
    \cup {Let(Alloc(EmptyHeap, NewALeaf(a1, FALSE)), LAMBDA b1 :
          Let(Alloc(b1.heap, NewALeaf(a2, FALSE)), LAMBDA b2 :
          Let(BasisAdd(b2.heap, b1.root, b2.root), TWrap))) :
          a1 \in {a \in LeafArgs : a.mode = "eval"},
          a2 \in {a \in LeafArgs : a.mode = "conv"}}

InitA ==
    /\ \E w \in AInitWrapped :
          /\ trans = [t \in TIds |-> IF t = 1 THEN w.root ELSE 0]
          /\ heap = Collect(w.heap, [t \in TIds |-> IF t = 1 THEN w.root ELSE 0])
    /\ last = ACall("construct", 1, "", 0, "none", RetNone)
    /\ tree = NoTree /\ plast = NoCall
    /\ rc = NoBasis /\ wlast = NoCall

NextA ==
    \/ \E name \in AssignedNames : \E value \in ValuesOf(name) :
          ASetAttr(1, name, value)
    \/ \E name \in {"_basis", "basis"}, a \in LeafArgs, initialized \in BOOLEAN :
          ASetBasis(1, name, a, initialized)
    \/ \E given \in {"absent", "None", "basis"}, a \in LeafArgs :
          \/ ASetParams(1, given, a, <<>>)
          \/ \E name \in AssignedNames \ {"set_params"} : \E value \in ValuesOf(name) :
                ASetParams(1, given, a, <<[name |-> name, value |-> value]>>)
    \/ \E name \in ChainableMethods, result \in ResultKinds : AChain(1, name, result)
    \/ \E X \in AXSet : AFit(1, X)
    \/ \E X \in AXSet : ATransform(1, X)
    \/ AClone
    \/ \E name \in {"n_basis_funcs", "bounds"} : \E value \in ValuesOf(name) :
          ASetAttr(2, name, value)
    \/ \E X \in AXSet : AFit(2, X)

SpecA == InitA /\ [][NextA]_vars

(***************************************************************************)
(* C13                                                                     *)
(***************************************************************************)
\* the one-dimensional bases in conv mode that transformer t wraps
ConvLeaves(t) ==
    {j \in Reach(heap, trans[t]) : heap[j].kind = "leaf" /\ heap[j].mode = "conv"}

ForwardsParameters ==
    /\ trans' = trans
    /\ SetParamsCallable(heap, trans[last'.t]) =>
          /\ heap' = BasisSetParams(heap, trans[last'.t], last'.arg.parameters).heap
          /\ last'.err = BasisSetParams(heap, trans[last'.t], last'.arg.parameters).err
    /\ last'.err = "none" => last'.ret = RetSelf

\* a call of set_params with a new basis alone stores it and returns the
\* transformer
ReplacesBasis ==
    /\ last'.err = "none" /\ last'.ret = RetSelf
    /\ trans'[last'.t] = last'.arg.new

IsSetAttr == last'.op = "setattr"

\* a name that is neither _basis, basis nor an attribute of the wrapped
\* basis raises ValueError and changes nothing
OtherNameRejected ==
    last'.err = "ValueError" /\ heap' = heap /\ trans' = trans

\* a read of the name through the transformer returns the value assigned
ReadsBack ==
    /\ TGetAttr(heap', trans'[last'.t], last'.name).err = "none"
    /\ TGetAttr(heap', trans'[last'.t], last'.name).value = last'.arg

Bounded(h) ==
    {j \in ObjIds : h[j].kind = "leaf" /\ h[j].mode = "eval" /\ h[j].bounds # None}

WithoutKernels(h) ==
    [j \in ObjIds |-> IF h[j].kind = "leaf" THEN [h[j] EXCEPT !.kernel_ = None] ELSE h[j]]

\* the objects of the original
Original == Reach(heap, trans[1])

UXSet == {Array2(r, c) : r \in 0..MaxRows, c \in 0..(MaxCols + 1)}

\* TransformerBasis._unpack_inputs(X): the list it returns, or the
\* ValueError of np.reshape
TUnpackInputs(h, basis, X) ==
    IF UnpackRaises(h, basis, X)
    THEN Outcome("ValueError", "cannot reshape array", 0, 0, None)
    ELSE Outcome("none", "", 0, 0, UnpackInputs(h, basis, X))

\* transformer._unpack_inputs(X), as fit and transform call it once the
\* basis has its input shape
Unpack(t, X) ==
    /\ trans[t] # 0
    /\ ~NotInitialized(heap, trans[t])
    /\ heap' = heap
    /\ last' = Call("unpack", t, 0, 0, X, TUnpackInputs(heap, trans[t], X))
    /\ UNCHANGED <<trans, pvars, wvars>>

InitU ==
    /\ \E w \in InitWrapped :
          /\ trans = [t \in TIds |-> IF t = 1 THEN w.root ELSE 0]
          /\ heap = Collect(w.heap, [t \in TIds |-> IF t = 1 THEN w.root ELSE 0])
    /\ last = Call("construct", 1, 0, 1, 0, Returned)
    /\ tree = NoTree /\ plast = NoCall
    /\ rc = NoBasis /\ wlast = NoCall

NextU ==
    \/ \E k \in 1..2 : \E shapes \in ShapeSeqs(k) : SetInputShape(1, shapes)
    \/ \E X \in UXSet : Unpack(1, X)

SpecU == InitU /\ [][NextU]_vars

(***************************************************************************)
(* C21                                                                     *)
(***************************************************************************)
\* the remembered input widths n_i of the components of transformer 1, and
\* the first column c_i + 1 of component i
Widths == NBasisInput(heap, trans[1])
RECURSIVE SumTo(_, _)
SumTo(s, k) == IF k = 0 THEN 0 ELSE s[k] + SumTo(s, k - 1)

\* the list returned has one array per component, left to right, component
\* i made of the columns c_i + 1 .. c_i + n_i of X and of shape
\* (n_samples, *input_shape_i)
ExactColumns(X, out) ==
    /\ Len(out) = Len(ListComponents(heap, trans[1]))
    /\ \A i \in 1..Len(out) :
          /\ out[i].first = SumTo(Widths, i - 1) + 1
          /\ out[i].ncols = Widths[i]
          /\ out[i].first + out[i].ncols - 1 <= X.shape[2]
          /\ out[i].shape = <<X.shape[1]>>
                 \o heap[ListComponents(heap, trans[1])[i]].input_shape_

FitSampleMismatch(X, y) ==
    /\ Fit(1, X, y)
    /\ ~NotInitialized(heap, trans[1])
    /\ X.ndim = 2
    /\ X.shape[2] = ExpectedCols(heap, 1)
    /\ y # YNone
    /\ y # X.shape[1]

\* C23 as stated: fit(X, y) with a valid 2-D X of the expected column count
\* and a y that is not None whose sample count differs from the one of X
\* fails with a ValueError saying that X and y must have the same number of
\* samples, and setup_basis is not invoked (no basis object changes).
C23_SampleMismatchValueError ==
    [][\A X \in XSet, y \in YSet :
          FitSampleMismatch(X, y) => (last'.out.err = "ValueError" /\ heap' = heap)]_vars

\* C23, what the code does: the call fails and setup_basis is not invoked,
\* but the error is the AttributeError of X.shpae, raised while the message
\* of the ValueError is built.
C23_SampleMismatchFails ==
    [][\A X \in XSet, y \in YSet :
          FitSampleMismatch(X, y)
              => /\ last'.out.err = "AttributeError"
                 /\ last'.out.feat = None
                 /\ heap' = heap]_vars

\* fit with two rows in X and one sample in y, on a basis expecting the three
\* columns X has, has raised AttributeError and left the kernel unset
C23_Witness ==
    /\ last.op = "fit" /\ last.out.err = "AttributeError"
    /\ last.arg = Array2(2, 3)
    /\ ExpectedCols(heap, 1) = 3
    /\ KernelMissing(heap, trans[1])

(***************************************************************************)
(* C24                                                                     *)
(***************************************************************************)
\* the step is a set_params call that raised
SetParamsRaised == last'.op = "set_params" /\ last'.err # "none"

\* the transformer of the call wraps the object it wrapped, and every object
\* of that basis is as it was
TransformerAsBefore ==
    /\ trans' = trans
    /\ \A j \in Reach(heap, trans[last'.t]) : heap'[j] = heap[j]

\* C24 as stated: a set_params call that raises, the rejected mix of _basis
\* with other parameters in particular, leaves the transformer as it was:
\* the wrapped basis is the same object with the same parameters.
C24_RaisingSetParamsChangesNothing ==
    [][SetParamsRaised => TransformerAsBefore]_vars

\* C24, what the code does: a set_params call that raises leaves the
\* transformer as it was when no new _basis was given (or None was); the
\* rejected mix has stored the new basis as the wrapped basis before it raised.
C24_RaisingSetParams ==
    [][SetParamsRaised =>
          IF last'.name = "basis"
          THEN trans'[last'.t] = last'.arg.new /\ last'.arg.new # trans[last'.t]
          ELSE TransformerAsBefore]_vars

\* set_params(_basis=new, n_basis_funcs=4) has raised ValueError, and the
\* transformer wraps the new basis, with the n_basis_funcs the caller built it with
C24_Witness ==
    /\ last.op = "set_params" /\ last.name = "basis" /\ last.err = "ValueError"
    /\ Len(last.arg.parameters) = 1
    /\ last.arg.parameters[1].name = "n_basis_funcs"
    /\ last.arg.parameters[1].value = 4
    /\ trans[1] = last.arg.new
    /\ heap[trans[1]].n_basis_funcs # 4

(***************************************************************************)
(* SpecS: a caller keeps the basis it hands to a TransformerBasis.         *)
(* Variable 1 is the caller's basis, variable 2 the transformer: the       *)
(* caller installs bases by the constructor, by the basis setter, by       *)
(* assigning _basis and by set_params(_basis=...), and changes the basis   *)
(* through the transformer.                                                *)
(***************************************************************************)
\* the caller's variable is bound to the basis b it built, the transformer
\* to the basis r.root it wraps after the call
Installed(path, b, r) ==
    /\ trans' = [trans EXCEPT ![1] = b, ![2] = r.root]
    /\ heap' = Collect(r.heap, [trans EXCEPT ![1] = b, ![2] = r.root])
    /\ last' = ACall("install", 2, path, b, r.err, r.ret)
    /\ UNCHANGED <<pvars, wvars>>

\* basis = ...; transformer = TransformerBasis(basis)
SConstruct(a, initialized) ==
    /\ trans[2] # 0
    /\ \E c \in {Alloc(heap, NewALeaf(a, initialized))} :
       \E d \in {TInit(c.heap, c.root)} :
          Installed("constructor", c.root, ParamsResult(d.heap, d.root, "none", RetNone))

\* basis = ...; transformer.basis = basis  or  transformer._basis = basis
SSetBasis(name, a, initialized) ==
    /\ trans[2] # 0
    /\ \E c \in {Alloc(heap, NewALeaf(a, initialized))} :
       \E s \in {TSetAttr(c.heap, trans[2], name, c.root)} :
          Installed(name, c.root, ParamsResult(s.heap, s.root, s.err, RetNone))

\* basis = ...; transformer.set_params(_basis=basis)
SSetParamsBasis(a, initialized) ==
    /\ trans[2] # 0
    /\ \E c \in {Alloc(heap, NewALeaf(a, initialized))} :
          Installed("set_params", c.root,
                    TSetParams(c.heap, trans[2], BasisArg(TRUE, c.root), <<>>))

SInitWrapped ==
    {Let(Alloc(EmptyHeap, NewALeaf(a, initialized)),
         LAMBDA c : [basis |-> c.root, wrapped |-> TInit(c.heap, c.root)]) :
        a \in LeafArgs, initialized \in BOOLEAN}

InitS ==
    /\ \E w \in SInitWrapped :
          /\ trans = [t \in TIds |-> IF t = 1 THEN w.basis
                                     ELSE IF t = 2 THEN w.wrapped.root ELSE 0]
          /\ heap = w.wrapped.heap
    /\ last = ACall("install", 2, "constructor", 1, "none", RetNone)
    /\ tree = NoTree /\ plast = NoCall
    /\ rc = NoBasis /\ wlast = NoCall

NextS ==
    \/ \E a \in LeafArgs, initialized \in BOOLEAN : SConstruct(a, initialized)
    \/ \E name \in {"basis", "_basis"}, a \in LeafArgs, initialized \in BOOLEAN :
          SSetBasis(name, a, initialized)
    \/ \E a \in LeafArgs, initialized \in BOOLEAN : SSetParamsBasis(a, initialized)
    \/ \E name \in {"n_basis_funcs", "window_size"} : \E value \in ValuesOf(name) :
          ASetAttr(2, name, value)
    \/ \E name \in {"n_basis_funcs", "window_size"} : \E value \in ValuesOf(name) :
          ASetParams(2, "absent", CHOOSE a \in LeafArgs : TRUE,
                     <<[name |-> name, value |-> value]>>)
    \/ \E X \in AXSet : AFit(2, X)

SpecS == InitS /\ [][NextS]_vars

(***************************************************************************)
(* C25                                                                     *)
(***************************************************************************)
\* the step is a change made through the transformer
ThroughTransformer == last'.op \in {"setattr", "set_params", "fit"}

\* the caller's variable is bound to the object it was bound to, and the
\* object is as it was
CallerBasisAsBefore == trans'[1] = trans[1] /\ heap'[trans[1]] = heap[trans[1]]

\* the step installs, by the path named, a basis that has no input shape
InstallsUninitialized(path) ==
    /\ last'.op = "install" /\ last'.name = path
    /\ NotInitialized(heap', last'.arg)

\* the installation was refused: RuntimeError, and the transformer wraps the
\* object it wrapped
Refused == last'.err = "RuntimeError" /\ trans'[2] = trans[2]

\* C25 as stated: however the basis was installed (constructor, basis
\* setter, _basis assignment, set_params(_basis=...)), a change made through
\* the transformer (attribute assignment, set_params, fit) does not change
\* the caller's basis object; and the basis setter, the _basis assignment
\* and set_params(_basis=...) all refuse a basis that has no input shape.
C25_NeverSharedAlwaysInitialized ==
    [][/\ ThroughTransformer => CallerBasisAsBefore
       /\ \A path \in {"basis", "_basis", "set_params"} :
             InstallsUninitialized(path) => Refused]_vars

\* C25, what the code does: the constructor wraps a deep copy, and while the
\* transformer wraps a copy the changes made through it leave the caller's
\* basis as it was; the basis setter refuses a basis that has no input shape
\* and otherwise stores the caller's object itself; the _basis assignment and
\* set_params(_basis=...) store the caller's object itself, with or without
\* an input shape.
C25_Installing ==
    [][/\ (ThroughTransformer /\ trans[1] # trans[2]) => CallerBasisAsBefore
       /\ (last'.op = "install" /\ last'.name = "constructor")
             => /\ last'.err = "none"
                /\ trans'[2] # last'.arg
                /\ Val(heap', trans'[2]) = Val(heap', last'.arg)
       /\ (last'.op = "install" /\ last'.name = "basis")
             => IF NotInitialized(heap', last'.arg) THEN Refused
                ELSE last'.err = "none" /\ trans'[2] = last'.arg
       /\ (last'.op = "install" /\ last'.name \in {"_basis", "set_params"})
             => last'.err = "none" /\ trans'[2] = last'.arg]_vars

\* transformer.n_basis_funcs = 4 has changed the basis the caller holds,
\* which has no input shape and which the transformer wraps
C25_Witness ==
    /\ last.op = "setattr" /\ last.name = "n_basis_funcs" /\ last.err = "none"
    /\ trans[1] = trans[2]
    /\ heap[trans[1]].n_basis_funcs = 4
    /\ NotInitialized(heap, trans[2])

(***************************************************************************)
(* Evaluation of the raised-cosine bases on sample points.  An array is a  *)
(* sequence of integers, a rescaled array a sequence of fractions.         *)
(***************************************************************************)
MaxSamples == 2     \* samples in an array
MaxSample == 2      \* largest sample value

\* the names the module binds: its imports and its two classes
ModuleNames ==
    {"annotations", "Optional", "Tuple", "np", "scipy", "ArrayLike", "NDArray",
     "support_pynapple", "FeatureMatrix", "EvalBasisMixin", "ConvBasisMixin",
     "Basis", "check_transform_input", "check_one_dimensional", "abc",
     "RaisedCosineBasisLinear", "RaisedCosineBasisLog"}

\* self._rescale_samples: True after RaisedCosineBasisLinear.__init__, set
\* to False by RaisedCosineBasisLog.__init__
RescaleSamples(basis) == basis.cls = "linear"

MaxOf(S) == CHOOSE x \in S : \A y \in S : y <= x
Range(s) == {s[i] : i \in DOMAIN s}

\* the sample rescaler with no bounds given: the points mapped linearly from
\* [min, max] to [0, 1]
MinMaxRescaleSamples(samples) ==
    [i \in DOMAIN samples |->
        FDiv(FInt(samples[i] - MinOf(Range(samples))),
             FInt(MaxOf(Range(samples)) - MinOf(Range(samples))))]

\* what an evaluation leaves: the error, the caller's array, the points the
\* cosines are computed on, and how often the samples were rescaled
EvalResult(err, caller, pts, rescaled) ==
    [err |-> err, caller |-> caller, pts |-> pts, rescaled |-> rescaled]

\* sample_pts, _ = min_max_rescale_samples(np.copy(sample_pts), self.bounds):
\* the name is looked up in the module before the copy is made; the
\* rescaler gets the copy and the caller's array stays as it is
RescaleCopy(sample_pts, caller, rescaled) ==
    IF "min_max_rescale_samples" \notin ModuleNames
    THEN EvalResult("NameError", caller, None, rescaled)
    ELSE IF MinOf(Range(sample_pts)) = MaxOf(Range(sample_pts))
    THEN EvalResult("ValueError", caller, None, rescaled + 1)
    ELSE EvalResult("none", caller, MinMaxRescaleSamples(sample_pts), rescaled + 1)

\* RaisedCosineBasisLinear.__call__
LinearCall(basis, sample_pts, caller, rescaled) ==
    IF RescaleSamples(basis) THEN RescaleCopy(sample_pts, caller, rescaled)
    ELSE EvalResult("none", caller, sample_pts, rescaled)

\* RaisedCosineBasisLog._transform_samples: rescaled, then log-stretched
LogStretch(time_scaling, pts) ==
    [i \in DOMAIN pts |-> [log_of |-> pts[i], time_scaling |-> time_scaling]]

TransformSamples(basis, sample_pts, caller) ==
    Let(RescaleCopy(sample_pts, caller, 0), LAMBDA r :
        IF r.err # "none" THEN r
        ELSE [r EXCEPT !.pts = LogStretch(basis.time_scaling, r.pts)])

\* RaisedCosineBasisLog.__call__
LogCall(basis, sample_pts, caller) ==
    Let(TransformSamples(basis, sample_pts, caller), LAMBDA r :
        IF r.err # "none" THEN r
        ELSE LinearCall(basis, r.pts, r.caller, r.rescaled))

\* basis(sample_pts), the array the caller holds being sample_pts
BasisCall(basis, sample_pts) ==
    IF basis.cls = "log" THEN LogCall(basis, sample_pts, sample_pts)
    ELSE LinearCall(basis, sample_pts, sample_pts, 0)

(***************************************************************************)
(* SpecE: raised-cosine bases are built and evaluated, alone and as the    *)
(* two operands of a composite that are given the same array.              *)
(***************************************************************************)
SampleSet == UNION {[1..k -> 0..MaxSample] : k \in 1..MaxSamples}

ECall(op, arg, first, second) ==
    [op |-> op, arg |-> arg, first |-> first, second |-> second]
NotCalled == EvalResult("not called", None, None, 0)

\* basis(x)
EEvaluate(x) ==
    /\ rc # NoBasis
    /\ wlast' = ECall("call", x, BasisCall(rc, x), NotCalled)
    /\ UNCHANGED <<rc, tvars, pvars>>

\* (basis + other)(x, x) and (basis * other)(x, x), other a log basis built
\* like basis: the composite evaluates basis on x, then other on the array
\* the caller holds after that
EEvaluateBoth(x, n) ==
    /\ rc # NoBasis
    /\ \E other \in {LogInit(n, rc.width, NoneArg, TRUE)} :
       \E r1 \in {BasisCall(rc, x)} :
          /\ other.err = "none"
          /\ wlast' = ECall("call both", x, r1,
                            IF r1.err # "none" THEN NotCalled
                            ELSE BasisCall(other.basis, r1.caller))
    /\ UNCHANGED <<rc, tvars, pvars>>

InitE ==
    /\ rc = NoBasis /\ wlast = NoCall
    /\ heap = EmptyHeap /\ trans = NoTrans
    /\ last = Call("none", 0, 0, 0, 0, Returned)
    /\ tree = NoTree /\ plast = NoCall

NextE ==
    \/ \E n \in NSet, width \in LWidthSet : LConstructLinear(n, width)
    \/ \E n \in NSet, width \in LWidthSet, decay \in BOOLEAN :
          LConstructLog(n, width, NoneArg, decay)
    \/ \E x \in SampleSet : EEvaluate(x)
    \/ \E x \in SampleSet, n \in NSet : EEvaluateBoth(x, n)

SpecE == InitE /\ [][NextE]_vars

(***************************************************************************)
(* C22                                                                     *)
(***************************************************************************)
IsEvaluation == wlast.op \in {"call", "call both"}

\* C22 as stated: an evaluation of a linear or log raised-cosine basis
\* returns with the caller's array as it was, so that the second operand of
\* a composite given the same array gets the original samples, and with the
\* samples rescaled exactly once.
C22_RescaledOnceOnACopy ==
    IsEvaluation =>
        /\ wlast.first.err \in {"none", "ValueError"}
        /\ wlast.first.caller = wlast.arg
        /\ wlast.first.rescaled = 1
        /\ (wlast.op = "call both" /\ wlast.first.err = "none") =>
              /\ wlast.second.err \in {"none", "ValueError"}
              /\ wlast.second.caller = wlast.arg
              /\ wlast.second.rescaled = 1

\* C22, what the code does: every evaluation raises NameError where it
\* looks up min_max_rescale_samples, before any sample is rescaled; the
\* caller's array is as it was, and the second operand of a composite is
\* not evaluated.
C22_EvaluationRaises ==
    IsEvaluation =>
        /\ wlast.first.err = "NameError"
        /\ wlast.first.caller = wlast.arg
        /\ wlast.first.rescaled = 0
        /\ wlast.second = NotCalled

\* a log basis has been evaluated on the samples (0, 2): NameError, no
\* rescaling, and the caller's array is as it was
C22_Witness ==
    /\ wlast.op = "call" /\ rc.cls = "log"
    /\ wlast.arg = <<0, 2>>
    /\ wlast.first.err = "NameError"
    /\ wlast.first.rescaled = 0
    /\ wlast.first.caller = <<0, 2>>

====
